---- MODULE Spec2Model ----
(***************************************************************************)
(* Model of the reactive core of bevy_reactor: mutable cells with a        *)
(* staged write and a per-tick commit, tracking scopes of reactions, the   *)
(* three chained systems of ReactorPlugin, and the positional list         *)
(* reconciler ForIndex.                                                     *)
(*                                                                         *)
(* Two specifications share the module:                                    *)
(*   Spec     the tick machine (cells, reactions, the system chain)        *)
(*   SpecFor  one ForIndex view reconciled against a series of sequences   *)
(***************************************************************************)
EXTENDS Integers, Sequences, FiniteSets, TLC

(* ---- bounds ---- *)
NumCells == 2
MaxVal == 1
NumReactions == 2
NumResources == 1
MaxItem == 2
MaxLen == 3
MaxEntities == 4
MaxRazes == 2

Cells == 1..NumCells
Values == 0..MaxVal
Reactions == 1..NumReactions
Resources == 1..NumResources
ItemValues == 1..MaxItem

VARIABLES
    mutable_value,    \* MutableValue.value of every cell
    mutable_changed,  \* MutableValue.changed of every cell
    mutable_next,     \* MutableValueNext of every cell: {} = absent, {v} = present
    pc,               \* Chain[pc] is the system due; application code runs while pc = 1
    rstate,           \* per reaction: "none", "added", "active", "razed"
    scope,            \* per reaction: the TrackingScope stored on its entity
    res_dirty,        \* per reaction: resources changed since scope[r] was created
    visited,          \* reactions run_reactions has already looked at in this tick
    scoped,           \* reactions whose entity exists and carries a TrackingScope
    \* ---- history variables ----
    run_count,        \* per reaction: invocations of its body in this tick
    phase_log,        \* the systems that completed in this tick, in order
    reads,            \* per reaction and cell: what its last invocation in this tick read
    read_cells,       \* per reaction: cells read by the most recent invocation
    used_res,         \* per reaction: resources used by the most recent invocation
    last_write,       \* per cell: the value of the last write call since the last commit
    wrote_diff,       \* per cell: some write since the last commit differed from the value
    must_rerun,       \* reactions that read a cell for which such a write was committed
    one_changed,      \* reactions visited with exactly one changed dependency
    committed_next,   \* per cell: the MutableValueNext the last commit found
    due_set,          \* reactions whose dependencies had changed when run_reactions began
    rerun_set,        \* reactions run_reactions re-ran in this tick
    spurious          \* reactions re-run although nothing they had read or used changed

VARIABLES
    fi_state,         \* the ForIndex view: "new", "built" or "razed"
    items,            \* ForIndex.items: records [id, value]; the child view lives at id
    fallback,         \* ForIndex.fallback is Some
    fallback_ent,     \* ForIndex.fallback_ent: {} = None, {e} = Some(e)
    next_entity,      \* the next entity the world spawns
    live,             \* spawned child view entities that were not razed
    display_changed,  \* DisplayNodeChanged is on the view entity
    \* ---- history variables ----
    last_op,          \* "none", "build", "react" or "raze"
    old_items,        \* items before the last operation
    old_fallback_ent, \* fallback_ent before the last operation
    new_seq,          \* the sequence item_fn produced in the last build or react
    log,              \* the spawns and razes of the last operation, in order
    marked,           \* the last operation inserted DisplayNodeChanged
    fb_calls,         \* the build and raze calls the fallback view object received
    nodes_ret         \* {} or {what nodes() returned since the last build, react or raze}

VARIABLES
    tv_kind,          \* the text view: "static" (TextStatic) or "computed" (TextComputed)
    tv_node,          \* its field node: {} = None, {e} = Some(e)
    tv_alive,         \* the entity in node exists in the world
    \* ---- history variables ----
    outcome,          \* how the last call of a View method ended: "none", "ok", "panic"
    call,             \* that call: <<view, method>>, <<"none", "none">> before the first
    raze_count,       \* per view: the calls of raze it has received
    misuse            \* that call was a build of a built view, or a react or raze
                      \* of a view that was never built

callVars == <<tv_kind, tv_node, tv_alive, outcome, call, raze_count, misuse>>

forVars == <<fi_state, items, fallback, fallback_ent, next_entity, live, display_changed,
             last_op, old_items, old_fallback_ent, new_seq, log, marked, fb_calls,
             nodes_ret>>

cellVars == <<mutable_value, mutable_changed, mutable_next>>
reactVars == <<rstate, scope, res_dirty, visited, scoped>>
histVars == <<run_count, phase_log, reads, read_cells, used_res, last_write,
              wrote_diff, must_rerun, one_changed, committed_next,
              due_set, rerun_set, spurious>>
tickVars == <<cellVars, pc, reactVars, histVars>>

(* ---- the world's cell components as one value ---- *)
World == [value |-> mutable_value, changed |-> mutable_changed, next |-> mutable_next]

(* ---- TrackingScope ---- *)
TrackingScopeNew == [mutable_deps |-> {}, resource_deps |-> {}]

add_mutable(tracking, c) == [tracking EXCEPT !.mutable_deps = @ \cup {c}]

add_resource(tracking, x) == [tracking EXCEPT !.resource_deps = @ \cup {x}]

(* ---- Cx ---- *)
\* variant: hands out the staged value when there is one
read_mutable_staged(w, tracking, c) ==
    [ret |-> IF w.next[c] # {} THEN CHOOSE v \in w.next[c] : TRUE ELSE w.value[c],
     tracking |-> add_mutable(tracking, c)]

\* variant: returns the value without registering the cell
read_mutable_untracked(w, tracking, c) ==
    [ret |-> w.value[c], tracking |-> tracking]

\* read_mutable / read_mutable_clone: register the cell, return MutableValue.value
read_mutable(w, tracking, c) ==
    [ret |-> w.value[c], tracking |-> add_mutable(tracking, c)]

\* variant: a pending value is kept, later writes of the tick are dropped
write_mutable_first_wins(w, c, v) ==
    IF w.next[c] # {}
    THEN w
    ELSE IF w.value[c] # v
         THEN [w EXCEPT !.next[c] = {v}]
         ELSE w

\* variant: the value is stored into MutableValue at once
write_mutable_in_place(w, c, v) == [w EXCEPT !.value[c] = v]

\* variant: the write also raises MutableValue.changed
write_mutable_marks(w, c, v) ==
    IF w.next[c] # {} \/ w.value[c] # v
    THEN [w EXCEPT !.next[c] = {v}, !.changed[c] = TRUE]
    ELSE w

\* variant: the value is stored into MutableValue and flagged, nothing is staged
write_mutable_direct(w, c, v) ==
    IF w.value[c] # v
    THEN [w EXCEPT !.value[c] = v, !.changed[c] = TRUE]
    ELSE w

\* write_mutable / write_mutable_clone: overwrite an existing MutableValueNext,
\* otherwise insert one when the value differs from MutableValue.value
write_mutable(w, c, v) ==
    IF w.next[c] # {}
    THEN [w EXCEPT !.next[c] = {v}]
    ELSE IF w.value[c] # v
         THEN [w EXCEPT !.next[c] = {v}]
         ELSE w

\* variant: returns the resource without registering it
use_resource_untracked(tracking, x) == tracking

\* use_resource: register the resource id (the reference it returns is not modelled)
use_resource(tracking, x) == add_resource(tracking, x)

(* ---- commit_mutables ---- *)
commit_mutables(w) ==
    [value   |-> [c \in Cells |-> IF w.next[c] # {}
                                  THEN CHOOSE v \in w.next[c] : TRUE
                                  ELSE w.value[c]],
     changed |-> [c \in Cells |-> w.next[c] # {}],
     next    |-> [c \in Cells |-> {}]]

(* ---- ReactorPlugin: (commit_mutables, build_added_views, run_reactions).chain() ---- *)
\* variant: the views are built before the commit
Chain_build_first == <<"build_added_views", "commit_mutables", "run_reactions">>

Chain == <<"commit_mutables", "build_added_views", "run_reactions">>

Due(system) == Chain[pc] = system

Advance == pc' = IF pc = Len(Chain) THEN 1 ELSE pc + 1

\* between two runs of the Update schedule, before its first system
Idle == pc = 1

(* ---- a reaction body: the reads, resource uses and writes of one invocation ---- *)
RECURSIVE ReadAll(_, _, _)
ReadAll(w, tracking, rd) ==
    IF rd = {} THEN [tracking |-> tracking, got |-> [c \in Cells |-> {}]]
    ELSE LET c    == CHOOSE x \in rd : TRUE
             r1   == read_mutable(w, tracking, c)
             rest == ReadAll(w, r1.tracking, rd \ {c})
         IN  [tracking |-> rest.tracking,
              got      |-> [rest.got EXCEPT ![c] = {r1.ret}]]

RECURSIVE UseAll(_, _)
UseAll(tracking, rs) ==
    IF rs = {} THEN tracking
    ELSE LET x == CHOOSE y \in rs : TRUE
         IN  UseAll(use_resource(tracking, x), rs \ {x})

\* wr is a set of at most one <<cell, value>> pair
WriteAll(w, wr) ==
    IF wr = {} THEN w
    ELSE LET p == CHOOSE q \in wr : TRUE IN write_mutable(w, p[1], p[2])

BodyWrites == {{}} \cup {{<<c, v>>} : c \in Cells, v \in Values}

\* the invocation of the body of r with a fresh scope `tracking`
Invoke(r, tracking, rd, rs, wr) ==
    LET rr == ReadAll(World, tracking, rd)
        t2 == UseAll(rr.tracking, rs)
        w2 == WriteAll(World, wr)
    IN  /\ scope' = [scope EXCEPT ![r] = t2]
        /\ res_dirty' = [res_dirty EXCEPT ![r] = {}]
        /\ mutable_next' = w2.next
        /\ mutable_value' = w2.value
        /\ mutable_changed' = w2.changed
        /\ run_count' = [run_count EXCEPT ![r] = @ + 1]
        /\ reads' = [reads EXCEPT ![r] = rr.got]
        /\ read_cells' = [read_cells EXCEPT ![r] = rd]
        /\ used_res' = [used_res EXCEPT ![r] = rs]
        /\ last_write' = [c \in Cells |->
                            IF \E p \in wr : p[1] = c
                            THEN {p[2] : p \in {q \in wr : q[1] = c}}
                            ELSE last_write[c]]
        /\ wrote_diff' = [c \in Cells |->
                            wrote_diff[c] \/ \E p \in wr : p[1] = c /\ p[2] # mutable_value[c]]

(* ---- TrackingScope::dependencies_changed ---- *)
ChangedDeps(r) ==
    {<<"mutable", c>> : c \in {x \in scope[r].mutable_deps : mutable_changed[x]}}
    \cup {<<"resource", x>> : x \in scope[r].resource_deps \cap res_dirty[r]}

dependencies_changed(r) == ChangedDeps(r) # {}

(* ---- Init ---- *)
\* variant: the new cell counts as changed
create_mutable_changed(init) == [value |-> init, changed |-> TRUE, next |-> {}]

\* create_mutable: MutableValue { changed: false, value: init }, no MutableValueNext
create_mutable(init) == [value |-> init, changed |-> FALSE, next |-> {}]

TickInit ==
    /\ mutable_value = [c \in Cells |-> create_mutable(0).value]
    /\ mutable_changed = [c \in Cells |-> create_mutable(0).changed]
    /\ mutable_next = [c \in Cells |-> create_mutable(0).next]
    /\ pc = 1
    /\ rstate = [r \in Reactions |-> "none"]
    /\ scope = [r \in Reactions |-> TrackingScopeNew]
    /\ res_dirty = [r \in Reactions |-> {}]
    /\ visited = {}
    /\ scoped = {}
    /\ run_count = [r \in Reactions |-> 0]
    /\ phase_log = <<>>
    /\ reads = [r \in Reactions |-> [c \in Cells |-> {}]]
    /\ read_cells = [r \in Reactions |-> {}]
    /\ used_res = [r \in Reactions |-> {}]
    /\ last_write = [c \in Cells |-> {}]
    /\ wrote_diff = [c \in Cells |-> FALSE]
    /\ must_rerun = {}
    /\ one_changed = {}
    /\ committed_next = [c \in Cells |-> {}]
    /\ due_set = {}
    /\ rerun_set = {}
    /\ spurious = {}

(* ---- between two runs of the schedule: application code ---- *)
\* a callback stages a write through Cx
UserWrite(c, v) ==
    /\ Idle
    /\ LET w2 == write_mutable(World, c, v)
       IN  /\ mutable_next' = w2.next
           /\ mutable_value' = w2.value
           /\ mutable_changed' = w2.changed
    /\ last_write' = [last_write EXCEPT ![c] = {v}]
    /\ wrote_diff' = [wrote_diff EXCEPT ![c] = @ \/ v # mutable_value[c]]
    /\ UNCHANGED <<forVars, callVars>>
    /\ UNCHANGED <<pc, reactVars, run_count, phase_log, reads, read_cells, used_res,
                   must_rerun, one_changed, committed_next, due_set, rerun_set, spurious>>

\* a system mutates a resource: it is changed for every scope captured before
\* (recorded only for the scopes that depend on it; no other scope asks)
MutateResource(x) ==
    /\ Idle
    /\ res_dirty' = [r \in Reactions |->
                        res_dirty[r] \cup ({x} \cap scope[r].resource_deps)]
    /\ UNCHANGED <<forVars, callVars>>
    /\ UNCHANGED <<cellVars, pc, rstate, scope, visited, scoped, histVars>>

\* ViewHandle::spawn: the view entity exists and awaits build_added_views
SpawnView(r) ==
    /\ Idle
    /\ rstate[r] = "none"
    /\ rstate' = [rstate EXCEPT ![r] = "added"]
    /\ UNCHANGED <<forVars, callVars>>
    /\ UNCHANGED <<cellVars, pc, scope, res_dirty, visited, scoped, histVars>>

\* variant: the view is razed but its entity keeps the TrackingScope
RazeView_keep_scope(r) ==
    /\ Idle
    /\ rstate[r] = "active"
    /\ rstate' = [rstate EXCEPT ![r] = "razed"]
    /\ used_res' = [used_res EXCEPT ![r] = {}]
    /\ UNCHANGED <<forVars, callVars>>
    /\ UNCHANGED <<cellVars, pc, scope, res_dirty, visited, scoped, run_count, phase_log,
                   reads, read_cells, last_write, wrote_diff, must_rerun, one_changed,
                   committed_next, due_set, rerun_set, spurious>>

\* View::raze of a built view: its entity and scope are despawned
\* (read_cells keeps what the last invocation read)
RazeView(r) ==
    /\ Idle
    /\ rstate[r] = "active"
    /\ rstate' = [rstate EXCEPT ![r] = "razed"]
    /\ scoped' = scoped \ {r}
    /\ scope' = [scope EXCEPT ![r] = TrackingScopeNew]
    /\ res_dirty' = [res_dirty EXCEPT ![r] = {}]
    /\ used_res' = [used_res EXCEPT ![r] = {}]
    /\ UNCHANGED <<forVars, callVars>>
    /\ UNCHANGED <<cellVars, pc, visited, run_count, phase_log, reads, read_cells,
                   last_write, wrote_diff, must_rerun, one_changed, committed_next,
                   due_set, rerun_set, spurious>>

(* ---- the three systems ---- *)
CommitMutables ==
    /\ Due("commit_mutables")
    /\ LET w2 == commit_mutables(World)
       IN  /\ mutable_value' = w2.value
           /\ mutable_changed' = w2.changed
           /\ mutable_next' = w2.next
    /\ Advance
    /\ phase_log' = Append(phase_log, "commit_mutables")
    /\ must_rerun' = {r \in Reactions : /\ rstate[r] = "active"
                                        /\ \E c \in read_cells[r] : wrote_diff[c]}
    /\ last_write' = [c \in Cells |-> {}]
    /\ wrote_diff' = [c \in Cells |-> FALSE]
    /\ committed_next' = mutable_next
    /\ UNCHANGED <<forVars, callVars>>
    /\ UNCHANGED <<reactVars, run_count, reads, read_cells, used_res, one_changed,
                   due_set, rerun_set, spurious>>

\* build_added_views builds one view whose handle was added: View::build runs
\* the body once with a new TrackingScope and stores the scope
BuildView(r) ==
    /\ Due("build_added_views")
    /\ rstate[r] = "added"
    /\ \E rd \in SUBSET Cells, rs \in SUBSET Resources, wr \in BodyWrites :
           Invoke(r, TrackingScopeNew, rd, rs, wr)
    /\ rstate' = [rstate EXCEPT ![r] = "active"]
    /\ scoped' = scoped \cup {r}
    /\ UNCHANGED <<forVars, callVars>>
    /\ UNCHANGED <<pc, visited, phase_log, must_rerun, one_changed, committed_next,
                   due_set, rerun_set, spurious>>

BuildAddedViewsDone ==
    /\ Due("build_added_views")
    /\ \A r \in Reactions : rstate[r] # "added"
    /\ Advance
    /\ phase_log' = Append(phase_log, "build_added_views")
    /\ due_set' = {r \in scoped : dependencies_changed(r)}
    /\ UNCHANGED <<forVars, callVars>>
    /\ UNCHANGED <<cellVars, reactVars, run_count, reads, read_cells, used_res,
                   last_write, wrote_diff, must_rerun, one_changed, committed_next,
                   rerun_set, spurious>>

\* some cell the last invocation of r read was committed in this tick, or some
\* resource it used was mutated since
Trigger(r) ==
    \/ \E c \in read_cells[r] : committed_next[c] # {}
    \/ used_res[r] \cap res_dirty[r] # {}

\* run_reactions looks at one scope: react with a new scope when a dependency changed
Rerun(r) ==
    /\ Due("run_reactions")
    /\ r \in scoped
    /\ r \notin visited
    /\ dependencies_changed(r)
    /\ \E rd \in SUBSET Cells, rs \in SUBSET Resources, wr \in BodyWrites :
           Invoke(r, TrackingScopeNew, rd, rs, wr)
    /\ visited' = visited \cup {r}
    /\ one_changed' = IF Cardinality(ChangedDeps(r)) = 1
                      THEN one_changed \cup {r} ELSE one_changed
    /\ rerun_set' = rerun_set \cup {r}
    /\ spurious' = IF Trigger(r) THEN spurious ELSE spurious \cup {r}
    /\ UNCHANGED <<forVars, callVars>>
    /\ UNCHANGED <<pc, rstate, scoped, phase_log, must_rerun, committed_next, due_set>>

Skip(r) ==
    /\ Due("run_reactions")
    /\ r \in scoped
    /\ r \notin visited
    /\ ~dependencies_changed(r)
    /\ visited' = visited \cup {r}
    /\ UNCHANGED <<forVars, callVars>>
    /\ UNCHANGED <<cellVars, pc, rstate, scope, res_dirty, scoped, histVars>>

\* the schedule is over; the per-tick history is reset here
RunReactionsDone ==
    /\ Due("run_reactions")
    /\ \A r \in scoped : r \in visited
    /\ Advance
    /\ visited' = {}
    /\ run_count' = [r \in Reactions |-> 0]
    /\ phase_log' = <<>>
    /\ reads' = [r \in Reactions |-> [c \in Cells |-> {}]]
    /\ must_rerun' = {}
    /\ one_changed' = {}
    /\ due_set' = {}
    /\ rerun_set' = {}
    /\ spurious' = {}
    /\ UNCHANGED <<forVars, callVars>>
    /\ UNCHANGED <<cellVars, rstate, scope, res_dirty, scoped, read_cells, used_res,
                   last_write, wrote_diff, committed_next>>

TickNext ==
    \/ \E c \in Cells, v \in Values : UserWrite(c, v)
    \/ \E x \in Resources : MutateResource(x)
    \/ \E r \in Reactions : SpawnView(r)
    \/ \E r \in Reactions : RazeView(r)
    \/ CommitMutables
    \/ \E r \in Reactions : BuildView(r)
    \/ BuildAddedViewsDone
    \/ \E r \in Reactions : Rerun(r)
    \/ \E r \in Reactions : Skip(r)
    \/ RunReactionsDone


(***************************************************************************)
(* ForIndex                                                                *)
(***************************************************************************)
RECURSIVE SeqsUpTo(_)
SeqsUpTo(n) ==
    IF n = 0 THEN {<<>>}
    ELSE LET shorter == SeqsUpTo(n - 1)
         IN  shorter \cup {Append(s, x) : s \in {t \in shorter : Len(t) = n - 1},
                                          x \in ItemValues}

\* the sequences item_fn may produce
ItemSeqs == SeqsUpTo(MaxLen)

\* the part of ForIndex and of the world that react works on
ForState ==
    [items |-> items, fallback_ent |-> fallback_ent, next_entity |-> next_entity,
     live |-> live, log |-> <<>>, changed |-> FALSE]

\* ViewHandle::spawn: a new entity holding the view, child of the view entity;
\* the id it returns is st.next_entity
ViewHandle_spawn(st, kind, index) ==
    [st EXCEPT !.next_entity = @ + 1,
               !.live = @ \cup {st.next_entity},
               !.log = Append(@, [op |-> kind, index |-> index, id |-> st.next_entity])]

\* View::raze of the child view at entity id
view_raze(st, kind, index, id) ==
    [st EXCEPT !.live = @ \ {id},
               !.log = Append(@, [op |-> kind, index |-> index, id |-> id])]

\* variant: every existing position counts as different
item_ne_always(item, value) == TRUE

\* `item != entry.value`
item_ne(item, value) == item # value

\* variant: the view is replaced but the stored value is left as it was
Overwrite_stale_value(st, item, index) ==
    LET entry == st.items[index + 1]
        s1 == view_raze(st, "raze", index, entry.id)
        s2 == ViewHandle_spawn(s1, "build", index)
    IN  [s2 EXCEPT !.items[index + 1] = [id |-> s1.next_entity, value |-> entry.value],
                   !.changed = TRUE]

\* "Overwrite existing items": raze the entry's view, store the item, spawn a new view
Overwrite(st, item, index) ==
    LET entry == st.items[index + 1]
        s1 == view_raze(st, "raze", index, entry.id)
        s2 == ViewHandle_spawn(s1, "build", index)
    IN  [s2 EXCEPT !.items[index + 1] = [id |-> s1.next_entity, value |-> item],
                   !.changed = TRUE]

\* "Append new items"
AppendItem(st, item, index) ==
    LET s1 == ViewHandle_spawn(st, "build", index)
    IN  [s1 EXCEPT !.items = Append(@, [id |-> st.next_entity, value |-> item]),
                   !.changed = TRUE]

\* `for item in iter`, from position index on (positions count from 0 as in the code)
RECURSIVE Walk(_, _, _, _)
Walk(st, seq, index, prev_len) ==
    IF index >= Len(seq) THEN st
    ELSE LET item == seq[index + 1]
             s1 == IF index < prev_len
                   THEN IF item_ne(item, st.items[index + 1].value)
                        THEN Overwrite(st, item, index)
                        ELSE st
                   ELSE AppendItem(st, item, index)
         IN  Walk(s1, seq, index + 1, prev_len)

\* variant: the surplus is razed from position index upwards
RECURSIVE RazeSurplus_head_first(_, _, _)
RazeSurplus_head_first(st, index, prev_len) ==
    IF index < prev_len
    THEN LET entry == st.items[index + 1]
             s1 == view_raze(st, "raze", index, entry.id)
             s2 == RazeSurplus_head_first(s1, index + 1, prev_len)
         IN  [s2 EXCEPT !.items = SubSeq(@, 1, index)]
    ELSE st

\* "Raze surplus items": `while index < prev_len`
RECURSIVE RazeSurplus(_, _, _)
RazeSurplus(st, index, prev_len) ==
    IF index < prev_len
    THEN LET p == prev_len - 1
             entry == st.items[p + 1]
             s1 == view_raze(st, "raze", p, entry.id)
         IN  RazeSurplus([s1 EXCEPT !.items = SubSeq(@, 1, Len(@) - 1)], index, p)
    ELSE st

\* variant: the fallback is never razed when items appear
HandleFallback_keep(st, has_fallback, index) ==
    IF has_fallback /\ st.fallback_ent = {} /\ index = 0
    THEN [ViewHandle_spawn(st, "build_fallback", 0) EXCEPT !.fallback_ent = {st.next_entity}]
    ELSE st

\* variant: an empty sequence rebuilds a fallback that is already shown
HandleFallback_rebuild(st, has_fallback, index) ==
    IF ~has_fallback THEN st
    ELSE IF st.fallback_ent # {}
         THEN LET fb_ent == CHOOSE e \in st.fallback_ent : TRUE
                  s1 == [view_raze(st, "raze_fallback", 0, fb_ent) EXCEPT !.fallback_ent = {}]
              IN  IF index > 0 THEN s1
                  ELSE [ViewHandle_spawn(s1, "build_fallback", 0)
                            EXCEPT !.fallback_ent = {s1.next_entity}]
         ELSE IF index = 0
              THEN [ViewHandle_spawn(st, "build_fallback", 0)
                        EXCEPT !.fallback_ent = {st.next_entity}]
              ELSE st

\* "Handle fallback"
HandleFallback(st, has_fallback, index) ==
    IF ~has_fallback THEN st
    ELSE IF st.fallback_ent # {} /\ index > 0
         THEN LET fb_ent == CHOOSE e \in st.fallback_ent : TRUE
              IN  [view_raze(st, "raze_fallback", 0, fb_ent) EXCEPT !.fallback_ent = {}]
         ELSE IF st.fallback_ent = {} /\ index = 0
              THEN [ViewHandle_spawn(st, "build_fallback", 0)
                        EXCEPT !.fallback_ent = {st.next_entity}]
              ELSE st

\* ForIndex::react up to the fallback; `changed` decides DisplayNodeChanged
react(st, has_fallback, seq) ==
    LET prev_len == Len(st.items)
        s1 == Walk(st, seq, 0, prev_len)
        s2 == RazeSurplus(s1, Len(seq), prev_len)
    IN  HandleFallback(s2, has_fallback, Len(seq))

\* ForIndex::raze: `for entry in self.items.drain(..)`; the view entity is despawned
RECURSIVE Drain(_, _)
Drain(st, index) ==
    IF index >= Len(st.items) THEN [st EXCEPT !.items = <<>>]
    ELSE Drain(view_raze(st, "raze", index, st.items[index + 1].id), index + 1)

\* ForIndex::new: no items, no fallback entity
ForNew(has_fallback) ==
    /\ fi_state = "new"
    /\ items = <<>>
    /\ fallback = has_fallback
    /\ fallback_ent = {}
    /\ next_entity = 1
    /\ live = {}
    /\ display_changed = FALSE
    /\ last_op = "none"
    /\ old_items = <<>>
    /\ old_fallback_ent = {}
    /\ new_seq = <<>>
    /\ log = <<>>
    /\ marked = FALSE
    /\ fb_calls = <<>>
    /\ nodes_ret = {}

\* the calls the fallback view received in an operation: ViewHandle::spawn builds
\* it, `fallback.lock().unwrap().raze` razes it
RECURSIVE FallbackCalls(_)
FallbackCalls(lg) ==
    IF lg = <<>> THEN <<>>
    ELSE LET e == Head(lg)
             c == IF e.op = "build_fallback" THEN <<"build">>
                  ELSE IF e.op = "raze_fallback" THEN <<"raze">>
                  ELSE <<>>
         IN  c \o FallbackCalls(Tail(lg))

\* the entities a react spawns stay within the world's bound
CanSpawn(st) == st.next_entity <= MaxEntities + 1

Reconcile(op, seq) ==
    LET st == react(ForState, fallback, seq)
    IN  /\ CanSpawn(st)
        /\ items' = st.items
        /\ fallback_ent' = st.fallback_ent
        /\ next_entity' = st.next_entity
        /\ live' = st.live
        /\ log' = st.log
        /\ display_changed' = (display_changed \/ st.changed)
        /\ marked' = st.changed
        /\ fb_calls' = fb_calls \o FallbackCalls(st.log)
        /\ last_op' = op
        /\ old_items' = items
        /\ old_fallback_ent' = fallback_ent
        /\ new_seq' = seq
        /\ nodes_ret' = {}
        /\ UNCHANGED fallback

\* ForIndex::build: react with a new TrackingScope
ForBuild(seq) ==
    /\ fi_state = "new"
    /\ Reconcile("build", seq)
    /\ fi_state' = "built"
    /\ UNCHANGED <<tickVars, callVars>>

\* run_reactions calls ForIndex::react when item_fn's dependencies changed; the
\* next stage of the frame consumes DisplayNodeChanged
ForReact(seq) ==
    /\ fi_state = "built"
    /\ Reconcile("react", seq)
    /\ UNCHANGED fi_state
    /\ UNCHANGED <<tickVars, callVars>>

\* the body of ForIndex::raze: drain the items, razing each view
Teardown ==
    /\ LET st == Drain(ForState, 0)
       IN  /\ items' = st.items
           /\ live' = st.live
           /\ log' = st.log
           /\ fb_calls' = fb_calls \o FallbackCalls(st.log)
    /\ fi_state' = "razed"
    /\ last_op' = "raze"
    /\ old_items' = items
    /\ old_fallback_ent' = fallback_ent
    /\ marked' = FALSE
    /\ nodes_ret' = {}
    /\ UNCHANGED <<fallback, fallback_ent, next_entity, display_changed, new_seq>>

ForRaze ==
    /\ fi_state = "built"
    /\ Teardown
    /\ UNCHANGED <<tickVars, callVars>>

\* ForIndex::nodes: the Fragment of the spans of the item views, in the order of
\* items (the span of a child view is named by the child's entity)
nodes(st) == [i \in 1..Len(st.items) |-> st.items[i].id]

\* a caller asks a built view for its nodes; `&self`: nothing is written
ForNodes ==
    /\ fi_state = "built"
    /\ nodes_ret' = {nodes(ForState)}
    /\ UNCHANGED <<fi_state, items, fallback, fallback_ent, next_entity, live,
                   display_changed, last_op, old_items, old_fallback_ent, new_seq, log,
                   marked, fb_calls>>
    /\ UNCHANGED <<tickVars, callVars>>

ForNext ==
    \/ \E seq \in ItemSeqs : ForBuild(seq)
    \/ \E seq \in ItemSeqs : ForReact(seq)
    \/ ForRaze
    \/ ForNodes

(***************************************************************************)
(* Specifications                                                          *)
(***************************************************************************)
(* ---- View methods called in any order, whatever the state of the view ---- *)
\* TextStatic::new / TextComputed::new
TextNew(kind) ==
    /\ tv_kind = kind
    /\ tv_node = {}
    /\ tv_alive = FALSE
    /\ outcome = "none"
    /\ call = <<"none", "none">>
    /\ raze_count = [v \in {"text", "for"} |-> 0]
    /\ misuse = FALSE

\* a panic ends the program
Running == outcome # "panic"

\* the history of a call (raze calls are counted up to MaxRazes)
Called(view, method) ==
    /\ call' = <<view, method>>
    /\ IF method = "raze"
       THEN /\ raze_count[view] < MaxRazes
            /\ raze_count' = [raze_count EXCEPT ![view] = @ + 1]
       ELSE UNCHANGED raze_count

\* TextStatic::build / TextComputed::build: assert!(self.node.is_none()), then spawn
CallTextBuild ==
    /\ Running
    /\ Called("text", "build")
    /\ misuse' = (tv_node # {})
    /\ IF tv_node # {}
       THEN outcome' = "panic" /\ UNCHANGED <<tv_node, tv_alive>>
       ELSE outcome' = "ok" /\ tv_node' = {1} /\ tv_alive' = TRUE
    /\ UNCHANGED <<tv_kind, tickVars, forVars>>

\* TextComputed::react: self.node.unwrap(), then entity_mut of that entity
CallTextReact ==
    /\ Running
    /\ Called("text", "react")
    /\ tv_kind = "computed"
    /\ misuse' = (tv_node = {})
    /\ outcome' = IF tv_node = {} \/ ~tv_alive THEN "panic" ELSE "ok"
    /\ UNCHANGED <<tv_kind, tv_node, tv_alive, tickVars, forVars>>

\* TextStatic::raze / TextComputed::raze: self.node.expect(..), entity_mut, despawn;
\* node stays Some
CallTextRaze ==
    /\ Running
    /\ Called("text", "raze")
    /\ misuse' = (tv_node = {})
    /\ IF tv_node = {} \/ ~tv_alive
       THEN outcome' = "panic" /\ UNCHANGED tv_alive
       ELSE outcome' = "ok" /\ tv_alive' = FALSE
    /\ UNCHANGED <<tv_kind, tv_node, tickVars, forVars>>

\* ForIndex::build: no test of the view's state
CallForBuild(seq) ==
    /\ Running
    /\ Called("for", "build")
    /\ Reconcile("build", seq)
    /\ fi_state' = "built"
    /\ misuse' = (fi_state # "new")
    /\ outcome' = "ok"
    /\ UNCHANGED <<tv_kind, tv_node, tv_alive, tickVars>>

\* ForIndex::react: no test of the view's state
CallForReact(seq) ==
    /\ Running
    /\ Called("for", "react")
    /\ Reconcile("react", seq)
    /\ UNCHANGED fi_state
    /\ misuse' = (fi_state = "new")
    /\ outcome' = "ok"
    /\ UNCHANGED <<tv_kind, tv_node, tv_alive, tickVars>>

\* ForIndex::raze: no test of the view's state
CallForRaze ==
    /\ Running
    /\ Called("for", "raze")
    /\ Teardown
    /\ misuse' = (fi_state = "new")
    /\ outcome' = "ok"
    /\ UNCHANGED <<tv_kind, tv_node, tv_alive, tickVars>>

CallNext ==
    \/ CallTextBuild
    \/ CallTextReact
    \/ CallTextRaze
    \/ \E seq \in ItemSeqs : CallForBuild(seq)
    \/ \E seq \in ItemSeqs : CallForReact(seq)
    \/ CallForRaze

vars == <<tickVars, forVars, callVars>>

Init == TickInit /\ ForNew(FALSE) /\ TextNew("static")

Next == TickNext

Spec == Init /\ [][Next]_vars

InitFor == TickInit /\ TextNew("static") /\ \E has_fallback \in BOOLEAN : ForNew(has_fallback)

NextFor == ForNext

SpecFor == InitFor /\ [][NextFor]_vars

InitCalls ==
    /\ TickInit
    /\ \E has_fallback \in BOOLEAN : ForNew(has_fallback)
    /\ \E kind \in {"static", "computed"} : TextNew(kind)

NextCalls == CallNext

SpecCalls == InitCalls /\ [][NextCalls]_vars

(***************************************************************************)
(* Properties of the tick machine (Spec)                                   *)
(***************************************************************************)

\* C1: write/commit isolation. Every read a reaction made in the current tick
\* returned the committed value of the cell, whatever was staged for it in the
\* meantime, and the value the last commit found staged is the committed value
\* until a later commit replaces it.
C1_WriteCommitIsolation ==
    \A c \in Cells :
        /\ \A r \in Reactions : reads[r][c] # {} => reads[r][c] = {mutable_value[c]}
        /\ committed_next[c] # {} => committed_next[c] = {mutable_value[c]}

\* a reaction read a cell whose value the last commit installed, while another
\* value is staged for that cell
C1_Witness ==
    \E r \in Reactions, c \in Cells :
        /\ reads[r][c] # {}
        /\ committed_next[c] # {}
        /\ mutable_next[c] # {}
        /\ mutable_next[c] # reads[r][c]

\* C2: redundant-write suppression. When the last write to a cell before a commit
\* passed the value the cell holds as committed, that commit does not mark the
\* cell changed (also when an earlier write of the tick had staged a value).
C2_RedundantWriteSuppressed ==
    [][\A c \in Cells :
          (Due("commit_mutables") /\ pc' # pc /\ last_write[c] = {mutable_value[c]})
              => ~mutable_changed'[c]]_vars

\* C3: end-to-end reactivity. A live reaction whose last run read a cell for which a
\* differing write was then made has, once run_reactions has looked at it in the
\* next tick, been invoked after the commit, and what it read of the committed
\* cells is the newly committed value.
C3_EndToEndReactivity ==
    \A r \in must_rerun \cap visited :
        rstate[r] = "active" =>
            /\ run_count[r] >= 1
            /\ phase_log # <<>> /\ phase_log[1] = "commit_mutables"
            /\ \A c \in Cells :
                   (committed_next[c] # {} /\ reads[r][c] # {})
                       => reads[r][c] = committed_next[c]

\* such a reaction was re-run and read the newly committed value
C3_Witness ==
    \E r \in must_rerun \cap visited, c \in Cells :
        /\ committed_next[c] # {}
        /\ committed_next[c] # {0}
        /\ reads[r][c] = committed_next[c]

C5_TickPhaseOrdering ==
    /\ phase_log \in {<<>>, <<"commit_mutables">>,
                      <<"commit_mutables", "build_added_views">>}
    /\ \A r \in Reactions : run_count[r] > 0 => phase_log # <<>>
    /\ visited # {} => Len(phase_log) = 2

\* one view was built and another reaction re-run in the same tick
C5_Witness ==
    \E r \in Reactions, q \in visited :
        /\ r \notin visited
        /\ run_count[r] > 0
        /\ run_count[q] > 0

\* C6: exact scope replacement. The scope stored for a built reaction holds exactly
\* the cells and resources its most recent invocation read.
C6_ExactScope ==
    \A r \in Reactions :
        rstate[r] = "active" =>
            /\ scope[r].mutable_deps = read_cells[r]
            /\ scope[r].resource_deps = used_res[r]

\* a reaction re-run because of a cell it had read did not read that cell again,
\* and used a resource
C6_Witness ==
    \E r \in must_rerun \cap visited :
        /\ run_count[r] >= 1
        /\ \A c \in read_cells[r] : ~mutable_changed[c]
        /\ used_res[r] # {}

(***************************************************************************)
(* Properties of ForIndex (SpecFor)                                        *)
(***************************************************************************)
Reconciled == last_op \in {"build", "react"}

EventsAt(kind, index) ==
    {k \in 1..Len(log) : log[k].op = kind /\ log[k].index = index}

MinLen == IF Len(old_items) < Len(new_seq) THEN Len(old_items) ELSE Len(new_seq)

Untouched(i) ==
    /\ items[i] = old_items[i]
    /\ items[i].id \in live
    /\ EventsAt("raze", i - 1) = {}
    /\ EventsAt("build", i - 1) = {}

\* C7: reconciler reuse. Of the positions both sequences have, exactly those whose
\* new item differs from the stored one are razed once and rebuilt once (a new
\* entity, the new value); every other one keeps its record and sees no build and
\* no raze. An unchanged sequence causes no build and no raze of an item view.
C7_ReconcilerReuse ==
    Reconciled =>
        /\ Len(items) >= MinLen
        /\ \A i \in 1..MinLen :
               IF new_seq[i] # old_items[i].value
               THEN /\ \E k \in 1..Len(log) :
                           /\ EventsAt("raze", i - 1) = {k}
                           /\ log[k].id = old_items[i].id
                    /\ \E k \in 1..Len(log) :
                           /\ EventsAt("build", i - 1) = {k}
                           /\ log[k].id = items[i].id
                    /\ items[i].id \notin {old_items[j].id : j \in 1..Len(old_items)}
                    /\ items[i].value = new_seq[i]
                    /\ old_items[i].id \notin live
               ELSE Untouched(i)
        /\ (/\ Len(new_seq) = Len(old_items)
            /\ \A i \in 1..MinLen : new_seq[i] = old_items[i].value)
               => /\ items = old_items
                  /\ \A k \in 1..Len(log) : log[k].op \notin {"build", "raze"}

\* a react found one position changed and another one unchanged
C7_Witness ==
    /\ last_op = "react"
    /\ \E i, j \in 1..MinLen :
           /\ new_seq[i] # old_items[i].value
           /\ new_seq[j] = old_items[j].value

\* C8: truncation order. When the new sequence is shorter, the razes of the
\* positions from the new length on are those of the old views at those positions,
\* each once, highest position first; the positions below it with an equal item
\* are untouched.
C8_TruncationOrder ==
    (last_op = "react" /\ Len(new_seq) < Len(old_items)) =>
        LET IsSurplusRaze(e) == e.op = "raze" /\ e.index >= Len(new_seq)
            razes == SelectSeq(log, IsSurplusRaze)
            n == Len(old_items) - Len(new_seq)
        IN  /\ Len(razes) = n
            /\ \A k \in 1..n :
                   /\ razes[k].index = Len(old_items) - k
                   /\ razes[k].id = old_items[Len(old_items) - k + 1].id
                   /\ razes[k].id \notin live
            /\ Len(items) = Len(new_seq)
            /\ \A i \in 1..Len(new_seq) :
                   new_seq[i] = old_items[i].value => Untouched(i)

\* a react dropped at least two positions and kept one
C8_Witness ==
    /\ last_op = "react"
    /\ Len(new_seq) >= 1
    /\ Len(old_items) >= Len(new_seq) + 2
    /\ new_seq[1] = old_items[1].value

\* C9: fallback visibility. For a built ForIndex with a fallback, the fallback
\* entity exists exactly when the reconciled sequence is empty, and never together
\* with item views.
C9_FallbackVisibility ==
    (fallback /\ fi_state = "built") =>
        /\ (fallback_ent # {}) <=> (Len(new_seq) = 0)
        /\ Len(items) = Len(new_seq)
        /\ ~(items # <<>> /\ fallback_ent # {})
        /\ fallback_ent \subseteq live

\* a react replaced the shown fallback by item views
C9_Witness ==
    /\ fallback
    /\ last_op = "react"
    /\ old_fallback_ent # {}
    /\ fallback_ent = {}
    /\ items # <<>>

FallbackEvents(kind) == {k \in 1..Len(log) : log[k].op = kind}

\* C10: fallback transitions are not redundant. A build or react builds the
\* fallback once when the length is zero and it was not zero before (or at the
\* first build), razes it once when the length leaves zero, and does neither
\* otherwise.
C10_FallbackTransitions ==
    (fallback /\ Reconciled) =>
        /\ Cardinality(FallbackEvents("build_fallback")) =
               (IF Len(new_seq) = 0 /\ (last_op = "build" \/ Len(old_items) > 0)
                THEN 1 ELSE 0)
        /\ Cardinality(FallbackEvents("raze_fallback")) =
               (IF Len(new_seq) > 0 /\ last_op = "react" /\ Len(old_items) = 0
                THEN 1 ELSE 0)

\* a react kept the sequence empty while the fallback was shown
C10_Witness ==
    /\ fallback
    /\ last_op = "react"
    /\ old_items = <<>>
    /\ new_seq = <<>>
    /\ old_fallback_ent # {}
    /\ fallback_ent = old_fallback_ent

\* C11: structure-changed marking. A build or react inserts DisplayNodeChanged
\* exactly when it appended, removed or replaced an item view.
C11_StructureChangedMarking ==
    Reconciled => (marked <=> \E k \in 1..Len(log) : log[k].op \in {"build", "raze"})

\* C12: teardown completeness. After ForIndex::raze no child view it built (item
\* view or fallback view) is left unrazed.
C12_TeardownComplete ==
    last_op = "raze" => live = {}

\* C13: view lifecycle. Every view object is built once, before any raze, and
\* razed at most once: the stored item views are distinct live entities, a razed
\* entity is razed once, and the fallback view receives one build and then at most
\* one raze.
C13_ViewLifecycle ==
    /\ \A i, j \in 1..Len(items) : items[i].id = items[j].id => i = j
    /\ \A i \in 1..Len(items) : items[i].id \in live
    /\ \A k, m \in 1..Len(log) :
           (log[k].op \in {"raze", "raze_fallback"} /\ log[m].op = log[k].op
                /\ log[k].id = log[m].id) => k = m
    /\ fb_calls \in {<<>>, <<"build">>, <<"build", "raze">>}

\* the step in which commit_mutables runs
CommitStep == Due("commit_mutables") /\ pc' # pc

\* C14: last write wins. A cell holds at most one pending value, and after the
\* commit a cell written since the previous commit holds the value of the last
\* of those writes.
C14_LastWriteWins ==
    [][\A c \in Cells :
          /\ Cardinality(mutable_next'[c]) <= 1
          /\ (CommitStep /\ last_write[c] # {}) => mutable_value'[c] \in last_write[c]]_vars

\* two writes of different values reached the cell since the last commit and the
\* later one is staged
C14_Witness ==
    \E c \in Cells :
        /\ wrote_diff[c]
        /\ last_write[c] = {mutable_value[c]}
        /\ mutable_next[c] = last_write[c]

\* C15: commit semantics. A new cell is unchanged and has no pending value; a
\* commit gives every cell with a pending value that value and marks it changed,
\* leaves the value of every other cell and marks it unchanged, and leaves no
\* pending value.
C15_CommitSemantics ==
    /\ \A c \in Cells : ~mutable_changed[c] /\ mutable_next[c] = {}
    /\ [][CommitStep =>
            \A c \in Cells :
               /\ mutable_next[c] # {} =>
                      (mutable_value'[c] \in mutable_next[c] /\ mutable_changed'[c])
               /\ mutable_next[c] = {} =>
                      (mutable_value'[c] = mutable_value[c] /\ ~mutable_changed'[c])
               /\ mutable_next'[c] = {}]_vars

\* a commit has just run that found a pending value on one cell and none on another
C15_Witness ==
    /\ phase_log = <<"commit_mutables">>
    /\ \E c1, c2 \in Cells :
           /\ committed_next[c1] # {} /\ mutable_changed[c1]
           /\ mutable_value[c1] \in committed_next[c1]
           /\ committed_next[c2] = {} /\ ~mutable_changed[c2]

\* C16: snapshot consistency. Within a tick every invocation that reads a cell
\* gets the same value, whatever ran or wrote before it, and the reactions
\* run_reactions re-runs are those whose dependencies had changed when it began,
\* whatever the order in which it visits them.
C16_SnapshotConsistency ==
    /\ \A r1, r2 \in Reactions : \A c \in Cells :
           (reads[r1][c] # {} /\ reads[r2][c] # {}) => reads[r1][c] = reads[r2][c]
    /\ Due("run_reactions") =>
           \A r \in scoped :
              IF r \in visited
              THEN r \in rerun_set <=> r \in due_set
              ELSE dependencies_changed(r) <=> r \in due_set

\* two reactions were re-run in one tick, both read a cell for which a different
\* value has been staged since the commit
C16_Witness ==
    \E r1, r2 \in rerun_set : \E c \in Cells :
        /\ r1 # r2
        /\ reads[r1][c] # {} /\ reads[r2][c] # {}
        /\ mutable_next[c] # {} /\ mutable_next[c] # {mutable_value[c]}

\* C17: no spurious rerun. run_reactions invokes the body of a reaction only when
\* a cell its last invocation read was committed in this tick or a resource it
\* used was mutated; a reaction it passes over keeps its scope and is not invoked.
C17_NoSpuriousRerun ==
    /\ spurious = {}
    /\ \A r \in visited \ rerun_set :
           /\ run_count[r] <= 1
           /\ scope[r].mutable_deps = read_cells[r]

\* in one tick a reaction was re-run and another, whose dependencies had not
\* changed, was passed over while some cell was changed
C17_Witness ==
    /\ \E r \in rerun_set : run_count[r] = 1
    /\ \E r \in visited \ rerun_set : run_count[r] = 0 /\ read_cells[r] # {}
    /\ \E c \in Cells : mutable_changed[c]

\* C18: once its view is razed, the body of a reaction is not invoked again and
\* run_reactions does not visit it.
C18_RazedNeverReacts ==
    \A r \in Reactions :
        rstate[r] = "razed" => (run_count[r] = 0 /\ r \notin visited /\ r \notin scoped)

\* run_reactions runs while a cell that a razed reaction last read is changed
C18_Witness ==
    /\ Due("run_reactions")
    /\ \E r \in Reactions :
           /\ rstate[r] = "razed"
           /\ \E c \in read_cells[r] : mutable_changed[c]

\* C19: reconciler post-state. After a build or react the stored items are as many
\* as the new sequence, the value stored at each position is the new item at that
\* position, and the view stored there is built and not razed.
C19_ReconcilerPostState ==
    Reconciled =>
        /\ Len(items) = Len(new_seq)
        /\ \A i \in 1..Len(items) :
               /\ items[i].value = new_seq[i]
               /\ items[i].id \in live
               /\ items[i].id < next_entity

\* a react kept one position, replaced another and appended a third
C19_Witness ==
    /\ last_op = "react"
    /\ Len(new_seq) > Len(old_items)
    /\ \E i, j \in 1..Len(old_items) :
           /\ old_items[i].value = new_seq[i]
           /\ old_items[j].value # new_seq[j]
    /\ \A i \in 1..Len(items) : items[i].value = new_seq[i]

(***************************************************************************)
(* Properties of the View methods called out of order (SpecCalls)          *)
(***************************************************************************)
\* C20: lifecycle violations are fatal. A build of a view that is already built,
\* or a react or raze of a view that was never built, ends in a panic, whatever
\* the kind of the view.
C20_LifecycleViolationsFatal ==
    misuse => outcome = "panic"

\* C21: raze is safe and idempotent. A raze of a view completes without a panic
\* at any point of the view's life (never built, built, already razed), and a
\* second raze destroys no node and razes no child view again.
C21_RazeSafeIdempotent ==
    call[2] = "raze" =>
        /\ outcome = "ok"
        /\ (call[1] = "for" /\ raze_count["for"] >= 2) => log = <<>>

\* what the ForIndex renders: its item views in position order, then the fallback
\* view when it is shown
Rendered ==
    [i \in 1..Len(items) |-> items[i].id]
        \o (IF fallback_ent # {} THEN <<CHOOSE e \in fallback_ent : TRUE>> ELSE <<>>)

\* C22: nodes() is complete. What nodes() returned for a built ForIndex is
\* everything the view renders: the item views in position order and the fallback
\* view when it is shown.
C22_NodesComplete ==
    nodes_ret # {} => nodes_ret = {Rendered}

\* C23: frame of a write. Outside the commit no step changes the value or the
\* changed flag of any cell, and a step changes the pending slot of at most one
\* cell; the scope an invocation leaves holds the cells it read and not the cells
\* it only wrote, and run_reactions re-runs a reaction only for something its
\* last invocation read or used.
C23_WriteFrame ==
    [][/\ ~CommitStep =>
             /\ mutable_value' = mutable_value
             /\ mutable_changed' = mutable_changed
             /\ Cardinality({c \in Cells : mutable_next'[c] # mutable_next[c]}) <= 1
       /\ \A r \in Reactions :
             /\ run_count'[r] > run_count[r] => scope'[r].mutable_deps = read_cells'[r]
             /\ (r \in rerun_set' /\ r \notin rerun_set) => Trigger(r)]_vars

\* the only reaction there is was re-run once in this tick, staged a value for a
\* cell it did not read, and its new scope does not hold that cell
C23_Witness ==
    /\ Due("run_reactions")
    /\ \E r \in Reactions : \E c \in Cells :
           /\ scoped = {r}
           /\ r \in rerun_set /\ run_count[r] = 1
           /\ last_write[c] # {} /\ mutable_next[c] = last_write[c]
           /\ c \notin read_cells[r] /\ c \notin scope[r].mutable_deps

====
